---- MODULE Spec2Model ----
(***************************************************************************)
(* The browser URL service: SelfhostURLCallbackProvider builds a callback  *)
(* URI (create) and polls the server for the callback's result.  Two       *)
(* versions of the provider are modelled:                                  *)
(*   "timeout"   - src/unnamed/part_000 (periodicFetchCallback, bounded by *)
(*                 FETCH_TIMEOUT),                                         *)
(*   "notimeout" - src/src/vs/workbench/services/url/browser/urlService.ts *)
(*                 (doFetch, no bound).                                    *)
(* Strings are sequences of tokens: one token is one character, or one of  *)
(* the fixed words of the code ("vscode-id", "callback", ...).             *)
(***************************************************************************)
EXTENDS Integers, Sequences, FiniteSets, TLC

\* ------------------------------------------------------------------ bounds

\* Longest identifier passed to create in the URI-factory specification.
MaxIdLen == 2
\* Longest path / query / fragment option passed to create there.
MaxOptLen == 1
\* Most poll sessions (calls of create) in one run.
MaxSessions == 1
\* The fetch counter of a session saturates here (it stands for "or more").
MaxFetch == 7
\* Most entries of a callback result.
MaxUris == 2
\* Most model-added events a QuickFixAction's listener is called with.
MaxEvents == 3
\* Most code actions getFixes resolves with, and most runs of the actions
\* getQuickFixActions returned.
MaxFixes == 2
MaxRuns == 2
\* Most assignments to useFilesExclude, and most calls of _onDidChange.fire.
MaxAssign == 3
MaxChanges == 4
\* Most poll sessions in one run of the specification of concurrent sessions,
\* and most fetches of one session there.
MaxConcurrent == 2
MaxPolls == 2

\* ------------------------------------------------------- program constants

FETCH_INTERVAL == 500

FETCH_TIMEOUT == 1000 * 5

\* The delay the doFetch variant passes to setTimeout.
DOFETCH_DELAY == 500

KEY_ID == "vscode-id"
KEY_PATH == "vscode-path"
KEY_QUERY == "vscode-query"
KEY_FRAGMENT == "vscode-fragment"

Variants == {"timeout", "notimeout"}

\* ------------------------------------------------------------------ strings

\* The characters callers' strings are made of: a plain one and the ones
\* that have a meaning inside a URI's query.
Chars == {"a", "&", "=", "#"}

RECURSIVE StringsUpTo(_)
StringsUpTo(n) ==
    IF n = 0 THEN {<<>>}
    ELSE LET shorter == StringsUpTo(n - 1)
         IN  shorter \cup {Append(s, c) : s \in shorter, c \in Chars}

\* An option that was not given (JavaScript's undefined).
Undefined == <<"undefined">>

\* JavaScript truthiness of an optional string: given and not empty.
Truthy(v) == v # Undefined /\ v # <<>>

\* encodeURIComponent on one character.
EncodeChar(c) ==
    CASE c = "&" -> <<"%", "2", "6">>
      [] c = "=" -> <<"%", "3", "D">>
      [] c = "#" -> <<"%", "2", "3">>
      [] c = "%" -> <<"%", "2", "5">>
      [] OTHER   -> <<c>>

RECURSIVE encodeURIComponent(_)
encodeURIComponent(s) ==
    IF s = <<>> THEN <<>>
    ELSE EncodeChar(Head(s)) \o encodeURIComponent(Tail(s))

\* Percent-decoding, the inverse a reader of the query applies to a value.
RECURSIVE decodeURIComponent(_)
decodeURIComponent(s) ==
    IF s = <<>> THEN <<>>
    ELSE IF Head(s) = "%" /\ Len(s) >= 3
         THEN LET hex == <<s[2], s[3]>>
                  c == CASE hex = <<"2", "6">> -> "&"
                         [] hex = <<"3", "D">> -> "="
                         [] hex = <<"2", "3">> -> "#"
                         [] hex = <<"2", "5">> -> "%"
                         [] OTHER -> "?"
              IN  <<c>> \o decodeURIComponent(SubSeq(s, 4, Len(s)))
         ELSE <<Head(s)>> \o decodeURIComponent(Tail(s))

\* Position of the first sep in s, or 0.
RECURSIVE IndexOf(_, _, _)
IndexOf(s, sep, from) ==
    IF from > Len(s) THEN 0
    ELSE IF s[from] = sep THEN from
    ELSE IndexOf(s, sep, from + 1)

\* s split on every sep (as String.prototype.split does).
RECURSIVE Split(_, _)
Split(s, sep) ==
    LET i == IndexOf(s, sep, 1)
    IN  IF i = 0 THEN <<s>>
        ELSE <<SubSeq(s, 1, i - 1)>> \o Split(SubSeq(s, i + 1, Len(s)), sep)

\* One key=value pair of a query, split on its first '='.
PairOf(p) ==
    LET i == IndexOf(p, "=", 1)
    IN  IF i = 0 THEN [key |-> p, value |-> <<>>]
        ELSE [key |-> SubSeq(p, 1, i - 1), value |-> SubSeq(p, i + 1, Len(p))]

\* The key=value pairs of a query string, in order.
QueryPairs(q) ==
    LET parts == Split(q, "&")
    IN  [i \in 1..Len(parts) |-> PairOf(parts[i])]

\* --------------------------------------------------------------- the state

VARIABLES
    variant,    \* which version of SelfhostURLCallbackProvider runs
    location,   \* window.location, as URI components
    now,        \* Date.now(), in ms; at MaxClock it stands for "MaxClock or later"
    sessions,   \* the poll sessions started so far, in order of their create calls
    fired,      \* the calls of _onCallback.fire, in order: [session, uri]
    errors,     \* the calls of logService.error, in order: [session]
    lastCall,   \* the arguments of the latest create call
    lastUri,    \* the URI the latest create call returned
    disposed,   \* which of "service" (BrowserURLService) and "provider" were disposed
    opened,     \* the URIs BrowserURLService.open was called with, in order
    models,     \* the resources the model service holds a text model of
    action,     \* the QuickFixAction: its marker's resource and its fields
    hasFixesCalls, \* the calls of resourceMarkers.hasFixes, in order
    fixes,      \* the call of getQuickFixActions: where it is, what it returned
    runs,       \* the runs of the actions getQuickFixActions returned
    editorLog,  \* the calls of openEditor and applyCodeAction, in order
    filter,     \* the MarkersFilterActionItem's files-exclude checkbox
    changes,    \* the calls of _onDidChange.fire, in order: what caused each
    assignments \* the values useFilesExclude was assigned, in order

\* The state of the markers panel's actions.
applyVars == <<fixes, runs, editorLog>>
filterVars == <<filter, changes, assignments>>
markerVars == <<models, action, hasFixesCalls, applyVars, filterVars>>

\* The state of the URL service.
urlVars == <<variant, location, now, sessions, fired, errors, lastCall, lastUri,
             disposed, opened>>

vars == <<variant, location, now, sessions, fired, errors, lastCall, lastUri,
          disposed, opened, markerVars>>

\* The clock advances in steps of two poll intervals.
TickStep == 2 * FETCH_INTERVAL

\* create is called at time 0 or one clock step later.
MaxStart == TickStep

\* Late enough that every session of the timeout variant has timed out.
MaxClock == MaxStart + FETCH_TIMEOUT + 2 * TickStep

\* -------------------------------------------------------- the URI factory

\* window.location: without and with a path, query and fragment of its own.
PlainLocation ==
    [scheme |-> "https", authority |-> "host", path |-> <<"/">>,
     query |-> <<>>, fragment |-> <<>>]

PollLocation ==
    [scheme |-> "https", authority |-> "host", path |-> <<"/", "w">>,
     query |-> <<"q">>, fragment |-> <<"f">>]

Locations == {PlainLocation, PollLocation}

\* window.location.origin: scheme and authority, nothing else.
Origin(loc) ==
    [scheme |-> loc.scheme, authority |-> loc.authority, path |-> <<>>,
     query |-> <<>>, fragment |-> <<>>]

NoOptions == [path |-> Undefined, query |-> Undefined, fragment |-> Undefined]

\* create's payload map (part_000): the truthy options, in insertion order.
Payload(options) ==
    (IF Truthy(options.path)
        THEN <<[key |-> KEY_PATH, value |-> options.path]>> ELSE <<>>)
    \o (IF Truthy(options.query)
        THEN <<[key |-> KEY_QUERY, value |-> options.query]>> ELSE <<>>)
    \o (IF Truthy(options.fragment)
        THEN <<[key |-> KEY_FRAGMENT, value |-> options.fragment]>> ELSE <<>>)

\* payload.forEach((value, key) => query += `&${key}=${value}`)
RECURSIVE PayloadQuery(_)
PayloadQuery(payload) ==
    IF payload = <<>> THEN <<>>
    ELSE <<"&", Head(payload).key, "=">> \o Head(payload).value
         \o PayloadQuery(Tail(payload))

\* doCreateUri of part_000: URI.parse(window.location.href).with({path, query}).
\* with() replaces path and query and keeps the other components; a path
\* without a leading slash gets one.
doCreateUri(loc, identifier, path, payload) ==
    LET query == <<KEY_ID, "=">> \o identifier \o PayloadQuery(payload)
    IN  [scheme |-> loc.scheme, authority |-> loc.authority,
         path |-> <<"/", path>>, query |-> query, fragment |-> loc.fragment]

\* The text create of urlService.ts appends to window.location.origin.
baseAppUriRaw(identifier, options) ==
    <<"/", "callback", "?", KEY_ID, "=">> \o identifier
    \o (IF Truthy(options.path)
        THEN <<"&", KEY_PATH, "=">> \o encodeURIComponent(options.path) ELSE <<>>)
    \o (IF Truthy(options.query)
        THEN <<"&", KEY_QUERY, "=">> \o encodeURIComponent(options.query) ELSE <<>>)
    \o (IF Truthy(options.fragment)
        THEN <<"&", KEY_FRAGMENT, "=">> \o encodeURIComponent(options.fragment)
        ELSE <<>>)

\* URI.parse of origin + rest: the path ends at the first '?' or '#', the
\* query is what follows the '?' up to the first '#', the fragment the rest.
UriParse(loc, rest) ==
    LET h == IndexOf(rest, "#", 1)
        beforeHash == IF h = 0 THEN rest ELSE SubSeq(rest, 1, h - 1)
        frag == IF h = 0 THEN <<>> ELSE SubSeq(rest, h + 1, Len(rest))
        q == IndexOf(beforeHash, "?", 1)
    IN  [scheme |-> loc.scheme, authority |-> loc.authority,
         path |-> IF q = 0 THEN beforeHash ELSE SubSeq(beforeHash, 1, q - 1),
         query |-> IF q = 0 THEN <<>>
                   ELSE SubSeq(beforeHash, q + 1, Len(beforeHash)),
         fragment |-> frag]

\* The URI create returns.
CreatedUri(v, loc, identifier, options) ==
    IF v = "timeout"
    THEN doCreateUri(loc, identifier, "callback", Payload(options))
    ELSE UriParse(loc, baseAppUriRaw(identifier, options))

\* ------------------------------------------------------ response contents

\* A response body is a sequence of JSON tokens; its byte length is zero
\* exactly when the sequence is empty.
Tok(t) == [t |-> t]
Obj(c) == [t |-> "obj", v |-> c]

\* Two serialized UriComponents, the second with a query of its own.
U1 == [scheme |-> "https", authority |-> "example.com", path |-> "/done"]
U2 == [scheme |-> "vscode", authority |-> "ext", path |-> "/cb", query |-> "x=1"]

RECURSIVE SeqsUpTo(_, _)
SeqsUpTo(S, n) ==
    IF n = 0 THEN {<<>>}
    ELSE LET shorter == SeqsUpTo(S, n - 1)
         IN  shorter \cup {Append(s, x) : s \in shorter, x \in S}

\* JSON.stringify of a list of UriComponents.
RECURSIVE Items(_)
Items(us) ==
    IF us = <<>> THEN <<>>
    ELSE IF Len(us) = 1 THEN <<Obj(us[1])>>
    ELSE <<Obj(us[1]), Tok(",")>> \o Items(Tail(us))

ArrayText(us) == <<Tok("[")>> \o Items(us) \o <<Tok("]")>>

EmptyBody == <<>>

ValidBodies == {ArrayText(us) : us \in SeqsUpTo({U1, U2}, MaxUris)}

\* Non-empty bodies that are no JSON text: truncated, or with a trailing comma.
MalformedBodies ==
    { <<Tok("[")>>,
      <<Tok("["), Obj(U1)>>,
      <<Tok("["), Obj(U1), Tok(","), Tok("]")>> }

\* Valid JSON that is no array: forEach is not a function of it.
NonArrayBodies == { <<Tok("{"), Tok("}")>> }

Bodies == {EmptyBody} \cup ValidBodies \cup MalformedBodies \cup NonArrayBodies

\* content.byteLength
byteLength(content) == Len(content)

\* JSON.parse(content.toString()): [ok, isArray, items]; ok = FALSE is a
\* SyntaxError.
JSONparse(content) ==
    LET n == Len(content)
        bad == [ok |-> FALSE, isArray |-> FALSE, items |-> <<>>]
    IN  IF n = 2 /\ content[1].t = "{" /\ content[2].t = "}"
        THEN [ok |-> TRUE, isArray |-> FALSE, items |-> <<>>]
        ELSE IF n < 2 \/ content[1].t # "[" \/ content[n].t # "]" THEN bad
        ELSE LET inner == SubSeq(content, 2, n - 1)
                 m == Len(inner)
             IN  IF m = 0 THEN [ok |-> TRUE, isArray |-> TRUE, items |-> <<>>]
                 ELSE IF m % 2 = 1
                         /\ \A i \in 1..m :
                              inner[i].t = (IF i % 2 = 1 THEN "obj" ELSE ",")
                 THEN [ok |-> TRUE, isArray |-> TRUE,
                       items |-> [i \in 1..((m + 1) \div 2) |-> inner[2 * i - 1].v]]
                 ELSE bad

\* URI.revive: a URI from serialized components, absent ones empty.
Revive(c) ==
    [scheme |-> c.scheme,
     authority |-> IF "authority" \in DOMAIN c THEN c.authority ELSE "",
     path |-> IF "path" \in DOMAIN c THEN c.path ELSE "",
     query |-> IF "query" \in DOMAIN c THEN c.query ELSE "",
     fragment |-> IF "fragment" \in DOMAIN c THEN c.fragment ELSE ""]

\* forEachFire walking the list from its end.
forEachFireReversed(s, uris) ==
    [i \in 1..Len(uris) |->
        [session |-> s, uri |-> Revive(uris[Len(uris) + 1 - i])]]

\* uris.forEach(uri => this._onCallback.fire(URI.revive(uri))), as the fire
\* calls session s makes, in order.
forEachFire(s, uris) ==
    [i \in 1..Len(uris) |-> [session |-> s, uri |-> Revive(uris[i])]]

\* TryParseAndFire with an empty catch block: nothing is logged.
TryParseAndFireSilent(s, content) ==
    LET parsed == JSONparse(content)
    IN  IF parsed.ok /\ parsed.isArray
        THEN [calls |-> forEachFire(s, parsed.items), threw |-> FALSE]
        ELSE [calls |-> <<>>, threw |-> FALSE]

\* The try/catch around the parse: the fire calls made, and whether the
\* catch block ran (JSON.parse threw, or forEach is not a function).
TryParseAndFire(s, content) ==
    LET parsed == JSONparse(content)
    IN  IF parsed.ok /\ parsed.isArray
        THEN [calls |-> forEachFire(s, parsed.items), threw |-> FALSE]
        ELSE [calls |-> <<>>, threw |-> TRUE]

\* ---------------------------------------------------------- poll sessions

\* A session is one chain of periodicFetchCallback / doFetch calls.  pc:
\*   "request" - awaiting requestService.request
\*   "read"    - awaiting streamToBuffer(result.stream)
\*   "timer"   - a setTimeout is pending, `remaining` ms from firing
\*   "done"    - nothing pending
\* fetches and timers count what is outstanding: the calls of
\* periodicFetchCallback / doFetch that have not returned or failed, and the
\* setTimeout callbacks that have not run.
\* The other fields record what happened: the fetches issued and the empty
\* bodies received (both saturate at MaxFetch), the last body received, why
\* the session stopped.
NewSession(identifier, t) ==
    [identifier |-> identifier, startTime |-> t, pc |-> "request",
     remaining |-> 0, fetches |-> 1, timers |-> 0,
     nFetch |-> 1, nEmpty |-> 0, content |-> EmptyBody, end |-> "none"]

Inc(n) == IF n < MaxFetch THEN n + 1 ELSE MaxFetch

\* What handling a response does: the session afterwards, the fire calls
\* made and whether logService.error was called.
Effect(sess, calls, logged) == [session |-> sess, calls |-> calls, logged |-> logged]

\* content.byteLength > 0: parse, fire or log, then `return; // done`.
OnResult(s, sess, content) ==
    LET r == TryParseAndFire(s, content)
    IN  Effect([sess EXCEPT !.pc = "done", !.fetches = @ - 1,
                            !.content = content,
                            !.end = IF r.threw THEN "parseError" ELSE "result"],
               r.calls, r.threw)

\* Schedule that also issues the next fetch at once.
ScheduleAndFetch(sess, delay) ==
    Effect([sess EXCEPT !.pc = "timer", !.remaining = delay,
                        !.timers = @ + 1,
                        !.nEmpty = Inc(@), !.content = EmptyBody],
           <<>>, FALSE)

\* setTimeout(() => this.periodicFetchCallback(identifier, startTime), delay),
\* after which the function returns.
Schedule(sess, delay) ==
    Effect([sess EXCEPT !.pc = "timer", !.remaining = delay,
                        !.fetches = @ - 1, !.timers = @ + 1,
                        !.nEmpty = Inc(@), !.content = EmptyBody],
           <<>>, FALSE)

\* OnTimeout reporting the timeout to the log service.
OnTimeoutLogged(sess) ==
    Effect([sess EXCEPT !.pc = "done", !.fetches = @ - 1,
                        !.end = "timeout", !.nEmpty = Inc(@),
                        !.content = EmptyBody],
           <<>>, TRUE)

\* The timeout was hit: the function returns, nothing is scheduled.
OnTimeout(sess) ==
    Effect([sess EXCEPT !.pc = "done", !.fetches = @ - 1,
                        !.end = "timeout", !.nEmpty = Inc(@),
                        !.content = EmptyBody],
           <<>>, FALSE)

\* WithinTimeout with the comparison dropped: the loop has no bound.
WithinTimeoutAlways(t, startTime) == TRUE

\* WithinTimeout with <= for <.
WithinTimeoutInclusive(t, startTime) == t - startTime <= FETCH_TIMEOUT

\* Date.now() - startTime < FETCH_TIMEOUT
WithinTimeout(t, startTime) == t - startTime < FETCH_TIMEOUT

\* periodicFetchCallback without its `return; // done`: after a result it
\* goes on to the timeout check.
periodicFetchCallbackNoReturn(s, sess, content, t) ==
    LET e == IF byteLength(content) > 0
             THEN OnResult(s, sess, content)
             ELSE Effect([sess EXCEPT !.fetches = @ - 1], <<>>, FALSE)
    IN  IF WithinTimeout(t, sess.startTime)
        THEN Effect([e.session EXCEPT !.pc = "timer",
                                      !.remaining = FETCH_INTERVAL,
                                      !.timers = @ + 1,
                                      !.nEmpty = IF byteLength(content) > 0
                                                 THEN @ ELSE Inc(@)],
                    e.calls, e.logged)
        ELSE IF byteLength(content) > 0 THEN e ELSE OnTimeout(sess)

\* periodicFetchCallback backing off: each retry waits one interval longer.
periodicFetchCallbackBackoff(s, sess, content, t) ==
    IF byteLength(content) > 0
    THEN OnResult(s, sess, content)
    ELSE IF WithinTimeout(t, sess.startTime)
         THEN Schedule(sess, FETCH_INTERVAL * (sess.nEmpty + 1))
         ELSE OnTimeout(sess)

\* periodicFetchCallback (part_000) from `content` on, at time t.
periodicFetchCallback(s, sess, content, t) ==
    IF byteLength(content) > 0
    THEN OnResult(s, sess, content)
    ELSE IF WithinTimeout(t, sess.startTime)
         THEN Schedule(sess, FETCH_INTERVAL)
         ELSE OnTimeout(sess)

\* doFetch (urlService.ts) from `content` on, at time t.
doFetch(s, sess, content, t) ==
    IF byteLength(content) = 0
    THEN Schedule(sess, DOFETCH_DELAY)
    ELSE OnResult(s, sess, content)

HandleContent(s, sess, content, t) ==
    IF variant = "timeout"
    THEN periodicFetchCallback(s, sess, content, t)
    ELSE doFetch(s, sess, content, t)

\* A rejection caught and answered with a retry.
RejectedAndRetried(sess) ==
    [sess EXCEPT !.pc = "timer", !.remaining = FETCH_INTERVAL,
                 !.fetches = @ - 1, !.timers = @ + 1, !.end = "rejected"]

\* The awaited promise rejected: the async function's promise rejects, nobody
\* handles it, and nothing is pending for the session any more.
Rejected(sess) ==
    [sess EXCEPT !.pc = "done", !.fetches = @ - 1, !.end = "rejected"]

\* ------------------------------------------------------ callback emitter

\* BrowserURLService registers its listener in its constructor; the listener
\* is delivered to until the service (which owns the registration) or the
\* provider (which owns the emitter) is disposed.
Listening == disposed = {}

\* A listener that routes every URI twice.
onCallbackListenerTwice(uri) == <<uri, uri>>

\* The listener `uri => this.open(uri)`: the calls of open it makes for one
\* event.
onCallbackListener(uri) == <<uri>>

\* What the fire calls of one step make the emitter do: each event is
\* delivered at once, in order, to the listener registered at that time;
\* nothing is kept for later otherwise.
RECURSIVE Delivered(_)
Delivered(calls) ==
    IF ~Listening \/ calls = <<>> THEN <<>>
    ELSE onCallbackListener(Head(calls).uri) \o Delivered(Tail(calls))

\* ---------------------------------------------------------------- actions

Min(a, b) == IF a < b THEN a ELSE b
Max(a, b) == IF a > b THEN a ELSE b

\* create(identifier, options): start the session (the first fetch is issued
\* before create returns) and return the callback URI.
CreateWithin(limit, identifier, options) ==
    /\ Len(sessions) < limit
    /\ now <= MaxStart
    /\ sessions' = Append(sessions, NewSession(identifier, now))
    /\ lastCall' = [identifier |-> identifier, options |-> options]
    /\ lastUri' = CreatedUri(variant, location, identifier, options)
    /\ UNCHANGED <<variant, location, now, fired, errors, disposed, opened>>
    /\ UNCHANGED markerVars

\* create that builds the URI and leaves the polling to be started later.
CreateWithoutFetch(identifier, options) ==
    /\ lastUri.scheme = ""
    /\ lastCall' = [identifier |-> identifier, options |-> options]
    /\ lastUri' = CreatedUri(variant, location, identifier, options)
    /\ UNCHANGED <<variant, location, now, sessions, fired, errors, disposed,
                   opened>>
    /\ UNCHANGED markerVars

Create(identifier, options) == CreateWithin(MaxSessions, identifier, options)

\* requestService.request settles: it resolves with a response whose stream
\* is read next, or it rejects.
RequestSettles(s) ==
    /\ s \in DOMAIN sessions
    /\ sessions[s].pc = "request"
    /\ \E ok \in BOOLEAN :
         sessions' = [sessions EXCEPT ![s] =
                        IF ok THEN [@ EXCEPT !.pc = "read"] ELSE Rejected(@)]
    /\ UNCHANGED <<variant, location, now, fired, errors, lastCall, lastUri,
                   disposed, opened>>
    /\ UNCHANGED markerVars

\* The fire calls and the log calls made when `content` is handled for
\* every session of T, from session i on.
RECURSIVE CallsFrom(_, _, _)
CallsFrom(i, T, content) ==
    IF i > Len(sessions) THEN <<>>
    ELSE (IF i \in T THEN HandleContent(i, sessions[i], content, now).calls
          ELSE <<>>)
         \o CallsFrom(i + 1, T, content)

RECURSIVE LoggedFrom(_, _, _)
LoggedFrom(i, T, content) ==
    IF i > Len(sessions) THEN <<>>
    ELSE (IF i \in T /\ HandleContent(i, sessions[i], content, now).logged
          THEN <<[session |-> i]>> ELSE <<>>)
         \o LoggedFrom(i + 1, T, content)

\* One response shared by the sessions of an identifier: the body read for
\* session s is handled, in the same step, for every session of the same
\* identifier that awaits a body.
ReadSettlesShared(s, bodies) ==
    /\ s \in DOMAIN sessions
    /\ sessions[s].pc = "read"
    /\ \E content \in bodies :
         LET T == {t \in DOMAIN sessions :
                     /\ sessions[t].pc = "read"
                     /\ sessions[t].identifier = sessions[s].identifier}
             calls == CallsFrom(1, T, content)
         IN  /\ sessions' = [t \in DOMAIN sessions |->
                               IF t \in T
                               THEN HandleContent(t, sessions[t], content, now).session
                               ELSE sessions[t]]
             /\ fired' = fired \o calls
             /\ opened' = opened \o Delivered(calls)
             /\ errors' = errors \o LoggedFrom(1, T, content)
    /\ UNCHANGED <<variant, location, now, lastCall, lastUri, disposed>>
    /\ UNCHANGED markerVars

\* streamToBuffer settles: with the body, which is handled at once, or by
\* rejecting.
ReadSettlesFrom(s, bodies) ==
    /\ s \in DOMAIN sessions
    /\ sessions[s].pc = "read"
    /\ \E ok \in BOOLEAN, content \in bodies :
         IF ok
         THEN LET e == HandleContent(s, sessions[s], content, now)
              IN  /\ sessions' = [sessions EXCEPT ![s] = e.session]
                  /\ fired' = fired \o e.calls
                  /\ opened' = opened \o Delivered(e.calls)
                  /\ errors' = IF e.logged
                               THEN Append(errors, [session |-> s]) ELSE errors
         ELSE /\ content = EmptyBody
              /\ sessions' = [sessions EXCEPT ![s] = Rejected(@)]
              /\ UNCHANGED <<fired, errors, opened>>
    /\ UNCHANGED <<variant, location, now, lastCall, lastUri, disposed>>
    /\ UNCHANGED markerVars

ReadSettles(s) == ReadSettlesFrom(s, Bodies)

\* A due timer runs its callback: the next fetch is issued.
TimerFires(s) ==
    /\ s \in DOMAIN sessions
    /\ sessions[s].pc = "timer"
    /\ sessions[s].remaining = 0
    /\ sessions' = [sessions EXCEPT ![s] =
                      [@ EXCEPT !.pc = "request", !.timers = @ - 1,
                                !.fetches = @ + 1, !.nFetch = Inc(@)]]
    /\ UNCHANGED <<variant, location, now, fired, errors, lastCall, lastUri,
                   disposed, opened>>
    /\ UNCHANGED markerVars

\* dispose() with the pending polls cancelled.
DisposeProviderCancelling ==
    /\ "provider" \notin disposed
    /\ disposed' = disposed \cup {"provider"}
    /\ sessions' = [i \in 1..Len(sessions) |->
                      [sessions[i] EXCEPT !.pc = "done", !.fetches = 0,
                                          !.timers = 0]]
    /\ UNCHANGED <<variant, location, now, fired, errors, lastCall, lastUri,
                   opened>>
    /\ UNCHANGED markerVars

\* SelfhostURLCallbackProvider.dispose(): the emitter it registered is
\* disposed.  Neither periodicFetchCallback nor doFetch looks at it, and no
\* timer is cleared.
DisposeProvider ==
    /\ "provider" \notin disposed
    /\ disposed' = disposed \cup {"provider"}
    /\ UNCHANGED <<variant, location, now, sessions, fired, errors, lastCall,
                   lastUri, opened>>
    /\ UNCHANGED markerVars

\* BrowserURLService.dispose(): the listener it registered is removed.
DisposeService ==
    /\ "service" \notin disposed
    /\ disposed' = disposed \cup {"service"}
    /\ UNCHANGED <<variant, location, now, sessions, fired, errors, lastCall,
                   lastUri, opened>>
    /\ UNCHANGED markerVars

\* Time passes: the clock advances and pending timers come closer to firing.
Tick ==
    /\ now' = Min(now + TickStep, MaxClock)
    /\ sessions' = [i \in 1..Len(sessions) |->
                      IF sessions[i].pc = "timer"
                      THEN [sessions[i] EXCEPT
                              !.remaining = Max(0, @ - TickStep)]
                      ELSE sessions[i]]
    /\ UNCHANGED <<variant, location, fired, errors, lastCall, lastUri,
                   disposed, opened>>
    /\ UNCHANGED markerVars

\* ------------------------------------------------- the quick fix action

\* The resources markers and text models are of.
Resources == {"r1", "r2"}

\* No QuickFixAction was constructed yet.  Of a QuickFixAction: state is
\* "alive" or "disposed"; resource is its marker's; updated and enabled are
\* its fields; listening says that its onModelAdded listener is registered;
\* pending, that the promise hasFixes returned has not settled; events
\* counts the calls of its listener.
NoAction ==
    [state |-> "absent", resource |-> "", updated |-> FALSE,
     listening |-> FALSE, pending |-> FALSE, enabled |-> FALSE, events |-> 0]

\* isEqual(model.uri, marker.resource)
isEqual(first, second) == first = second

\* update without the `updated` flag: it asks every time.
updateUnguarded(a, ms) ==
    [action |-> [a EXCEPT !.updated = TRUE, !.pending = TRUE],
     calls |-> <<[resource |-> a.resource, modelExists |-> a.resource \in ms]>>]

\* update(): the action afterwards and the calls of hasFixes made, each with
\* the marker's resource and whether the model service holds a model of it.
update(a, ms) ==
    IF ~a.updated
    THEN [action |-> [a EXCEPT !.updated = TRUE, !.pending = TRUE],
          calls |-> <<[resource |-> a.resource,
                       modelExists |-> a.resource \in ms]>>]
    ELSE [action |-> a, calls |-> <<>>]

\* new QuickFixAction(marker, ...): disabled; update() at once if the model
\* service has a model of the marker's resource, a listener for added models
\* otherwise.
Construct(r) ==
    /\ action.state = "absent"
    /\ LET a == [NoAction EXCEPT !.state = "alive", !.resource = r]
           u == update(a, models)
       IN  IF r \in models
           THEN /\ action' = u.action
                /\ hasFixesCalls' = hasFixesCalls \o u.calls
           ELSE /\ action' = [a EXCEPT !.listening = TRUE]
                /\ hasFixesCalls' = hasFixesCalls
    /\ UNCHANGED models
    /\ UNCHANGED <<applyVars, filterVars>>
    /\ UNCHANGED urlVars

\* The model service adds a model of r and fires onModelAdded: the action's
\* listener, if registered, calls update() if the model is of the marker's
\* resource.
ModelAdded(r) ==
    /\ r \notin models
    /\ action.events < MaxEvents
    /\ models' = models \cup {r}
    /\ IF action.listening
       THEN LET a == [action EXCEPT !.events = @ + 1]
                u == update(a, models')
            IN  IF isEqual(r, action.resource)
                THEN /\ action' = u.action
                     /\ hasFixesCalls' = hasFixesCalls \o u.calls
                ELSE /\ action' = a
                     /\ hasFixesCalls' = hasFixesCalls
       ELSE UNCHANGED <<action, hasFixesCalls>>
    /\ UNCHANGED <<applyVars, filterVars>>
    /\ UNCHANGED urlVars

\* The model service disposes of the model of r; the action does not listen
\* to that.
ModelRemoved(r) ==
    /\ r \in models
    /\ models' = models \ {r}
    /\ UNCHANGED <<action, hasFixesCalls>>
    /\ UNCHANGED <<applyVars, filterVars>>
    /\ UNCHANGED urlVars

\* The promise hasFixes returned settles: resolved, `this.enabled = hasFixes`;
\* rejected, nothing.
HasFixesSettles ==
    /\ action.pending
    /\ \E ok \in BOOLEAN, hasFixes \in BOOLEAN :
         action' = [action EXCEPT !.pending = FALSE,
                                  !.enabled = IF ok THEN hasFixes ELSE @]
    /\ UNCHANGED <<models, hasFixesCalls>>
    /\ UNCHANGED <<applyVars, filterVars>>
    /\ UNCHANGED urlVars

\* QuickFixAction.dispose(): dispose(this.disposables) removes the listener.
DisposeAction ==
    /\ action.state = "alive"
    /\ action' = [action EXCEPT !.state = "disposed", !.listening = FALSE]
    /\ UNCHANGED <<models, hasFixesCalls>>
    /\ UNCHANGED <<applyVars, filterVars>>
    /\ UNCHANGED urlVars

\* ------------------------------------------------------- specifications

\* The code actions getFixes may resolve with: one with a command, one
\* without ("" stands for no command).
CodeActions ==
    {[title |-> "t1", command |-> "c1"], [title |-> "t2", command |-> ""]}

\* The marker's range.
MarkerRange == "range"

\* new Action(codeAction.command ? codeAction.command.id : codeAction.title,
\*            codeAction.title, void 0, true, () => ...)
QuickFix(codeAction) ==
    [id |-> IF codeAction.command # "" THEN codeAction.command
            ELSE codeAction.title,
     label |-> codeAction.title, enabled |-> TRUE, codeAction |-> codeAction]

\* getQuickFixActions() is called: it awaits resourceMarkers.getFixes.
GetQuickFixActions ==
    /\ action.state # "absent"
    /\ fixes.pc = "none"
    /\ fixes' = [fixes EXCEPT !.pc = "pending"]
    /\ UNCHANGED <<models, action, hasFixesCalls, runs, editorLog, filterVars>>
    /\ UNCHANGED urlVars

\* getFixes settles: resolved, one action per code action is returned, in
\* order; rejected, getQuickFixActions rejects.
GetFixesSettles ==
    /\ fixes.pc = "pending"
    /\ \E ok \in BOOLEAN, codeActions \in SeqsUpTo(CodeActions, MaxFixes) :
         IF ok
         THEN fixes' = [pc |-> "returned",
                        actions |-> [i \in 1..Len(codeActions) |->
                                       QuickFix(codeActions[i])]]
         ELSE /\ codeActions = <<>>
              /\ fixes' = [pc |-> "failed", actions |-> <<>>]
    /\ UNCHANGED <<models, action, hasFixesCalls, runs, editorLog, filterVars>>
    /\ UNCHANGED urlVars

\* openFileAtMarker(element): the openEditor request made for run k.
openFileAtMarker(k, element) ==
    [call |-> "openEditor", run |-> k, resource |-> element.resource,
     selection |-> element.range, preserveFocus |-> TRUE, pinned |-> FALSE,
     revealIfVisible |-> TRUE, group |-> "ACTIVE_GROUP"]

\* The i-th returned action is run: openFileAtMarker(this.marker) is called
\* and its promise awaited.
Run(i) ==
    /\ fixes.pc = "returned"
    /\ i \in DOMAIN fixes.actions
    /\ Len(runs) < MaxRuns
    /\ runs' = Append(runs, [fix |-> i, pc |-> "opening"])
    /\ editorLog' = Append(editorLog,
                           openFileAtMarker(Len(runs) + 1,
                                            [resource |-> action.resource,
                                             range |-> MarkerRange]))
    /\ UNCHANGED <<models, action, hasFixesCalls, fixes, filterVars>>
    /\ UNCHANGED urlVars

\* The promise of openEditor settles, with `.then(apply, apply)`: the code
\* action is applied whether the editor opened or not.
OpenEditorSettlesEitherWay(k) ==
    /\ k \in DOMAIN runs
    /\ runs[k].pc = "opening"
    /\ \E ok \in BOOLEAN :
         /\ runs' = [runs EXCEPT ![k].pc = IF ok THEN "applying"
                                           ELSE "openFailed"]
         /\ editorLog' = Append(editorLog,
                                [call |-> "applyCodeAction", run |-> k,
                                 codeAction |->
                                   fixes.actions[runs[k].fix].codeAction])
    /\ UNCHANGED <<models, action, hasFixesCalls, fixes, filterVars>>
    /\ UNCHANGED urlVars

\* The promise of openEditor settles: resolved (its value is dropped by
\* `.then(() => null)`), applyCodeAction(codeAction, ...) is called;
\* rejected, the run's promise rejects and nothing else happens.
OpenEditorSettles(k) ==
    /\ k \in DOMAIN runs
    /\ runs[k].pc = "opening"
    /\ \E ok \in BOOLEAN :
         IF ok
         THEN /\ runs' = [runs EXCEPT ![k].pc = "applying"]
              /\ editorLog' = Append(editorLog,
                                     [call |-> "applyCodeAction", run |-> k,
                                      codeAction |->
                                        fixes.actions[runs[k].fix].codeAction])
         ELSE /\ runs' = [runs EXCEPT ![k].pc = "openFailed"]
              /\ UNCHANGED editorLog
    /\ UNCHANGED <<models, action, hasFixesCalls, fixes, filterVars>>
    /\ UNCHANGED urlVars

\* The promise of applyCodeAction settles, and with it the run's.
ApplySettles(k) ==
    /\ k \in DOMAIN runs
    /\ runs[k].pc = "applying"
    /\ \E ok \in BOOLEAN :
         runs' = [runs EXCEPT ![k].pc = IF ok THEN "applied" ELSE "applyFailed"]
    /\ UNCHANGED <<models, action, hasFixesCalls, fixes, editorLog, filterVars>>
    /\ UNCHANGED urlVars

\* getQuickFixActions was not called yet.
NoFixes == [pc |-> "none", actions |-> <<>>]

\* createFilesExcludeCheckbox: the checkbox is checked as the item's options
\* say, its title says what a click will do.
NewFilter(useFilesExclude) ==
    [checked |-> useFilesExclude,
     title |-> IF useFilesExclude THEN "DO_NOT_USE_FILES_EXCLUDE"
               ELSE "USE_FILES_EXCLUDE"]

\* get useFilesExclude()
useFilesExclude == filter.checked

\* The setter without its comparison: it assigns and notifies every time.
SetUseFilesExcludeAlways(value) ==
    /\ Len(assignments) < MaxAssign
    /\ Len(changes) < MaxChanges
    /\ assignments' = Append(assignments, value)
    /\ filter' = [filter EXCEPT !.checked = value]
    /\ changes' = Append(changes, "set")
    /\ UNCHANGED <<models, action, hasFixesCalls, applyVars>>
    /\ UNCHANGED urlVars

\* set useFilesExclude(value): if the checkbox's state differs it is
\* assigned and _onDidChange fires; the checkbox's title is not touched.
SetUseFilesExclude(value) ==
    /\ Len(assignments) < MaxAssign
    /\ Len(changes) < MaxChanges
    /\ assignments' = Append(assignments, value)
    /\ IF filter.checked # value
       THEN /\ filter' = [filter EXCEPT !.checked = value]
            /\ changes' = Append(changes, "set")
       ELSE UNCHANGED <<filter, changes>>
    /\ UNCHANGED <<models, action, hasFixesCalls, applyVars>>
    /\ UNCHANGED urlVars

\* The user toggles the checkbox; its onChange listener sets the title to
\* what the next click will do and fires _onDidChange.
ToggleCheckbox ==
    /\ Len(changes) < MaxChanges
    /\ filter' = NewFilter(~filter.checked)
    /\ changes' = Append(changes, "toggle")
    /\ UNCHANGED <<models, action, hasFixesCalls, applyVars, assignments>>
    /\ UNCHANGED urlVars

\* The markers panel with no QuickFixAction yet.
InitMarkers(modelSets) ==
    /\ models \in modelSets
    /\ action = NoAction
    /\ hasFixesCalls = <<>>
    /\ fixes = NoFixes
    /\ runs = <<>>
    /\ editorLog = <<>>
    /\ filter \in {NewFilter(FALSE)}
    /\ changes = <<>>
    /\ assignments = <<>>

InitWith(locations) ==
    /\ variant \in Variants
    /\ location \in locations
    /\ now = 0
    /\ sessions = <<>>
    /\ fired = <<>>
    /\ errors = <<>>
    /\ lastCall = [identifier |-> <<>>, options |-> NoOptions]
    /\ lastUri = [scheme |-> "", authority |-> "", path |-> <<>>,
                  query |-> <<>>, fragment |-> <<>>]
    /\ disposed = {}
    /\ opened = <<>>
    /\ InitMarkers({{}})

Init == InitWith({PollLocation})

\* The identifiers and options of the create calls of the polling runs.
PollIdentifiers == {<<"a">>}
PollOptions == {NoOptions}

Next ==
    \/ \E identifier \in PollIdentifiers, options \in PollOptions :
         Create(identifier, options)
    \/ \E s \in 1..Len(sessions) : RequestSettles(s)
    \/ \E s \in 1..Len(sessions) : ReadSettles(s)
    \/ \E s \in 1..Len(sessions) : TimerFires(s)
    \/ Tick

Spec == Init /\ [][Next]_vars

\* The URI factory on its own: create called once, with any identifier and
\* any options, at any window location.
Identifiers == StringsUpTo(MaxIdLen)
OptionValues == {Undefined} \cup StringsUpTo(MaxOptLen)
AllOptions == [path : OptionValues, query : OptionValues, fragment : OptionValues]

InitCreate == InitWith(Locations)

NextCreate ==
    /\ sessions = <<>>
    /\ \E identifier \in Identifiers, options \in AllOptions :
         Create(identifier, options)

SpecCreate == InitCreate /\ [][NextCreate]_vars

\* The runs checked for termination: whether a session goes on depends on
\* a body only through its being empty or not, so one body of each kind is
\* enough.
FairBodies == {EmptyBody, ArrayText(<<U1>>), <<Tok("[")>>}

FairNext ==
    \/ \E identifier \in PollIdentifiers, options \in PollOptions :
         Create(identifier, options)
    \/ \E s \in 1..Len(sessions) : RequestSettles(s)
    \/ \E s \in 1..Len(sessions) : ReadSettlesFrom(s, FairBodies)
    \/ \E s \in 1..Len(sessions) : TimerFires(s)
    \/ Tick

\* Every fetch is eventually answered, every due timer eventually fires and
\* the clock advances.
Fairness ==
    /\ WF_vars(Tick)
    /\ \A s \in 1..MaxSessions :
         /\ WF_vars(RequestSettles(s))
         /\ WF_vars(ReadSettlesFrom(s, FairBodies))
         /\ WF_vars(TimerFires(s))

FairSpec == Init /\ [][FairNext]_vars /\ Fairness

\* Several sessions at once, for equal and for different identifiers, their
\* responses and timers interleaved in every order.  A body is empty or a
\* result with two URIs.
ConcurrentIdentifiers == {<<"a">>, <<"b">>}
ConcurrentBodies == {EmptyBody, ArrayText(<<U1, U2>>)}

ConcurrentNext ==
    \/ \E identifier \in ConcurrentIdentifiers :
         CreateWithin(MaxConcurrent, identifier, NoOptions)
    \/ \E s \in 1..Len(sessions) : RequestSettles(s)
    \/ \E s \in 1..Len(sessions) : ReadSettlesFrom(s, ConcurrentBodies)
    \/ \E s \in 1..Len(sessions) :
         sessions[s].nFetch < MaxPolls /\ TimerFires(s)
    \/ Tick

SpecConcurrent == Init /\ [][ConcurrentNext]_vars

\* Polling while the service and the provider may be disposed at any time.
LifecycleBodies == {EmptyBody, ArrayText(<<U1, U2>>), <<Tok("[")>>}

LifecycleNext ==
    \/ \E identifier \in PollIdentifiers, options \in PollOptions :
         Create(identifier, options)
    \/ \E s \in 1..Len(sessions) : RequestSettles(s)
    \/ \E s \in 1..Len(sessions) : ReadSettlesFrom(s, LifecycleBodies)
    \/ \E s \in 1..Len(sessions) : TimerFires(s)
    \/ Tick
    \/ DisposeService
    \/ DisposeProvider

SpecLifecycle == Init /\ [][LifecycleNext]_vars

\* The quick fix action on its own: the model service holds any models when
\* the action is constructed, and adds and removes models at any time.
InitQuickFix ==
    /\ variant = "timeout"
    /\ location = PlainLocation
    /\ now = 0
    /\ sessions = <<>>
    /\ fired = <<>>
    /\ errors = <<>>
    /\ lastCall = [identifier |-> <<>>, options |-> NoOptions]
    /\ lastUri = [scheme |-> "", authority |-> "", path |-> <<>>,
                  query |-> <<>>, fragment |-> <<>>]
    /\ disposed = {}
    /\ opened = <<>>
    /\ InitMarkers(SUBSET Resources)

NextQuickFix ==
    \/ \E r \in Resources : Construct(r)
    \/ \E r \in Resources : ModelAdded(r)
    \/ \E r \in Resources : ModelRemoved(r)
    \/ HasFixesSettles
    \/ DisposeAction

SpecQuickFix == InitQuickFix /\ [][NextQuickFix]_vars

\* The quick fixes of a marker: the action is constructed, asked for its
\* quick fix actions, and these are run, several runs at once.
NextApply ==
    \/ \E r \in Resources : Construct(r)
    \/ GetQuickFixActions
    \/ GetFixesSettles
    \/ \E i \in 1..MaxFixes : Run(i)
    \/ \E k \in 1..MaxRuns : OpenEditorSettles(k)
    \/ \E k \in 1..MaxRuns : ApplySettles(k)

SpecApply == InitQuickFix /\ [][NextApply]_vars

\* The filter's checkbox: created checked or not, then assigned through
\* useFilesExclude and toggled by the user in any order.
InitFilter ==
    /\ variant = "timeout"
    /\ location = PlainLocation
    /\ now = 0
    /\ sessions = <<>>
    /\ fired = <<>>
    /\ errors = <<>>
    /\ lastCall = [identifier |-> <<>>, options |-> NoOptions]
    /\ lastUri = [scheme |-> "", authority |-> "", path |-> <<>>,
                  query |-> <<>>, fragment |-> <<>>]
    /\ disposed = {}
    /\ opened = <<>>
    /\ models = {}
    /\ action = NoAction
    /\ hasFixesCalls = <<>>
    /\ fixes = NoFixes
    /\ runs = <<>>
    /\ editorLog = <<>>
    /\ filter \in {NewFilter(b) : b \in BOOLEAN}
    /\ changes = <<>>
    /\ assignments = <<>>

NextFilter ==
    \/ \E value \in BOOLEAN : SetUseFilesExclude(value)
    \/ ToggleCheckbox

SpecFilter == InitFilter /\ [][NextFilter]_vars

\* Session s has a fetch or a retry timer pending.
Active(s) == sessions[s].pc # "done"

\* No session has a fetch or a retry timer pending.
AllIdle == \A s \in DOMAIN sessions : sessions[s].pc = "done"


\* ------------------------------------------------------------ properties

\* The fire calls and the logged errors of session s.
FiredBy(s) == SelectSeq(fired, LAMBDA e : e.session = s)
ErrorsBy(s) == SelectSeq(errors, LAMBDA e : e.session = s)

\* The URIs the two serialized components stand for.
Uri1 == [scheme |-> "https", authority |-> "example.com", path |-> "/done",
         query |-> "", fragment |-> ""]
Uri2 == [scheme |-> "vscode", authority |-> "ext", path |-> "/cb",
         query |-> "x=1", fragment |-> ""]

\* The fire calls of session s that a list of components asks for.
Decoded(s, us) ==
    [i \in 1..Len(us) |->
        [session |-> s, uri |-> IF us[i] = U1 THEN Uri1 ELSE Uri2]]

UriLists == SeqsUpTo({U1, U2}, MaxUris)

\* C1: in the timeout variant, a session whose transport answered N empty
\* bodies and then a valid JSON array has issued exactly N+1 fetches, has
\* fired exactly the URIs of the array, in order and with duplicates, and
\* has nothing pending any more (so it never fetches again).
C1_ResultAfterEmpties ==
    variant = "timeout" =>
      \A s \in DOMAIN sessions :
        sessions[s].content \in ValidBodies =>
          /\ sessions[s].nFetch = sessions[s].nEmpty + 1
          /\ \E us \in UriLists :
               /\ sessions[s].content = ArrayText(us)
               /\ FiredBy(s) = Decoded(s, us)
          /\ sessions[s].pc = "done"

\* The scenario of the specification: three empty bodies, then one URI.
C1_Witness ==
    /\ variant = "timeout"
    /\ \E s \in DOMAIN sessions :
         /\ sessions[s].content = ArrayText(<<U1>>)
         /\ sessions[s].nEmpty = 3
         /\ sessions[s].nFetch = 4
         /\ FiredBy(s) = <<[session |-> s, uri |-> Uri1]>>

\* C2: in the timeout variant, under fair scheduling, every run reaches a
\* state with no fetch and no retry timer pending and stays there; the runs
\* whose transport always answers with an empty body are among them.
C2_TimeoutVariantTerminates == (variant = "timeout") => <>[]AllIdle

\* A session that ended by timeout after only empty bodies.
C2_Witness ==
    /\ variant = "timeout"
    /\ \E s \in DOMAIN sessions :
         /\ sessions[s].end = "timeout"
         /\ sessions[s].nEmpty = sessions[s].nFetch
         /\ sessions[s].nFetch >= 3
    /\ AllIdle

\* C3: in the variant without a timeout constant (urlService.ts), under fair
\* scheduling, every run eventually stops issuing fetches.
C3_NoTimeoutVariantTerminates == (variant = "notimeout") => <>[]AllIdle

\* C4 as stated: in the timeout variant no fetch of a session starts at a
\* time t with t - startTime greater than FETCH_TIMEOUT.
C4_NoFetchAfterTimeout ==
    [][\A s \in DOMAIN sessions :
         (variant = "timeout" /\ sessions[s].pc = "timer"
            /\ sessions'[s].pc = "request")
         => now - sessions[s].startTime <= FETCH_TIMEOUT]_vars

\* C4 amended: in the timeout variant a retry timer is set only while
\* handling an empty body at a time t with t - startTime < FETCH_TIMEOUT,
\* and every fetch after a session's first is started by such a timer.
C4_NoRetryScheduledAfterTimeout ==
    [][\A s \in DOMAIN sessions :
         variant = "timeout" =>
           /\ (sessions[s].pc # "timer" /\ sessions'[s].pc = "timer")
                => /\ sessions[s].pc = "read"
                   /\ now - sessions[s].startTime < FETCH_TIMEOUT
           /\ (sessions[s].pc # "request" /\ sessions'[s].pc = "request")
                => sessions[s].pc = "timer"]_vars

\* A fetch in flight that started after the timeout, from a timer set
\* before it.
C4_Witness ==
    /\ variant = "timeout"
    /\ \E s \in DOMAIN sessions :
         /\ sessions[s].pc = "timer"
         /\ sessions[s].remaining = 0
         /\ now - sessions[s].startTime >= FETCH_TIMEOUT

\* C5: a session that received a non-empty body that is no JSON text has
\* nothing pending, has fired no URI and has logged exactly one error,
\* whatever number of empty bodies came before.
C5_MalformedStopsAndLogsOnce ==
    \A s \in DOMAIN sessions :
      sessions[s].content \in MalformedBodies =>
        /\ sessions[s].pc = "done"
        /\ FiredBy(s) = <<>>
        /\ Len(ErrorsBy(s)) = 1

\* Malformed bodies after two empty ones, in both variants' shape.
C5_Witness ==
    \E s \in DOMAIN sessions :
      /\ sessions[s].content = <<Tok("["), Obj(U1)>>
      /\ sessions[s].nEmpty = 2
      /\ Len(ErrorsBy(s)) = 1

\* C6: in the timeout variant, a session that has received only empty
\* bodies, up to and including its end by timeout, has fired no URI and
\* logged no error.
C6_TimeoutIsSilent ==
    variant = "timeout" =>
      \A s \in DOMAIN sessions :
        sessions[s].end \in {"none", "timeout"} =>
          /\ FiredBy(s) = <<>>
          /\ ErrorsBy(s) = <<>>

\* A session ended by timeout and nothing was fired or logged by anyone:
\* both logs are as they were at the start.
C6_Witness ==
    /\ variant = "timeout"
    /\ \E s \in DOMAIN sessions :
         /\ sessions[s].end = "timeout"
         /\ sessions[s].nEmpty >= 2
    /\ fired = <<>>
    /\ errors = <<>>

\* C9: the fire calls of a session all happen in the one step that handles
\* its first non-empty body (every earlier fetch got an empty one, as far
\* as the counters count), in the order of the decoded list, and the session
\* issues no fetch in that step or afterwards.
C9_EmittedInOrderInOneStep ==
    [][\A s \in DOMAIN sessions :
         /\ FiredBy(s)' # FiredBy(s) =>
              /\ FiredBy(s) = <<>>
              /\ sessions[s].pc = "read"
              /\ sessions[s].nFetch < MaxFetch
                   => sessions[s].nFetch = sessions[s].nEmpty + 1
              /\ sessions'[s].pc = "done"
              /\ sessions'[s].nFetch = sessions[s].nFetch
              /\ \E us \in UriLists :
                   /\ sessions'[s].content = ArrayText(us)
                   /\ FiredBy(s)' = Decoded(s, us)
         /\ sessions[s].pc = "done" => sessions'[s] = sessions[s]]_vars

\* Two different URIs fired, in the list's order.
C9_Witness ==
    \E s \in DOMAIN sessions :
      /\ sessions[s].content = ArrayText(<<U2, U1>>)
      /\ FiredBy(s) = <<[session |-> s, uri |-> Uri2],
                        [session |-> s, uri |-> Uri1]>>
      /\ sessions[s].nEmpty >= 1

\* The keys create is to put into the query for these options.
ExpectedKeys(options) ==
    {<<KEY_ID>>}
    \cup (IF Truthy(options.path) THEN {<<KEY_PATH>>} ELSE {})
    \cup (IF Truthy(options.query) THEN {<<KEY_QUERY>>} ELSE {})
    \cup (IF Truthy(options.fragment) THEN {<<KEY_FRAGMENT>>} ELSE {})

\* The string create was given for a key.
Original(call, key) ==
    CASE key = <<KEY_ID>> -> call.identifier
      [] key = <<KEY_PATH>> -> call.options.path
      [] key = <<KEY_QUERY>> -> call.options.query
      [] key = <<KEY_FRAGMENT>> -> call.options.fragment

\* C7: the query of the URI create returned holds exactly the key
\* 'vscode-id' and the keys of the options given and not empty, each once.
C7_QueryKeysExact ==
    sessions # <<>> =>
      LET pairs == QueryPairs(lastUri.query)
          expected == ExpectedKeys(lastCall.options)
      IN  /\ {pairs[i].key : i \in DOMAIN pairs} = expected
          /\ Len(pairs) = Cardinality(expected)

\* C8: splitting the query of the URI create returned on '&' and '=' and
\* percent-decoding the value under each expected key gives back the string
\* create was given.
C8_ValuesRoundTrip ==
    sessions # <<>> =>
      LET pairs == QueryPairs(lastUri.query)
      IN  \A key \in ExpectedKeys(lastCall.options) :
            /\ \E i \in DOMAIN pairs : pairs[i].key = key
            /\ \A i \in DOMAIN pairs :
                 pairs[i].key = key =>
                   decodeURIComponent(pairs[i].value) = Original(lastCall, key)

C12_OneActiveSessionPerIdentifier ==
    \A identifier \in ConcurrentIdentifiers :
      Cardinality({s \in DOMAIN sessions :
                     sessions[s].identifier = identifier /\ Active(s)}) <= 1

\* C13 as stated: in the timeout variant a session with no fetch and no
\* retry timer pending has received a non-empty body, or its elapsed time
\* had reached FETCH_TIMEOUT when its last empty body was handled.
C13_StopsOnlyByTimeoutOrResult ==
    variant = "timeout" =>
      \A s \in DOMAIN sessions :
        ~Active(s) =>
          \/ sessions[s].content # EmptyBody
          \/ sessions[s].end = "timeout"

\* C13 amended: in the timeout variant a session stops only in a step that
\* handles a non-empty body, or that handles an empty body at a time t with
\* t - startTime >= FETCH_TIMEOUT, or in which its request or its body read
\* rejects; disposing the service or the provider changes no session.
C13_StopsOnlyByTimeoutResultOrFailure ==
    [][variant = "timeout" =>
         /\ \A s \in DOMAIN sessions :
              (Active(s) /\ sessions'[s].pc = "done") =>
                \/ /\ sessions[s].pc = "read"
                   /\ sessions'[s].content # EmptyBody
                   /\ sessions'[s].end \in {"result", "parseError"}
                \/ /\ sessions[s].pc = "read"
                   /\ sessions'[s].content = EmptyBody
                   /\ sessions'[s].end = "timeout"
                   /\ now - sessions[s].startTime >= FETCH_TIMEOUT
                \/ /\ sessions[s].pc \in {"request", "read"}
                   /\ sessions'[s].end = "rejected"
                   /\ fired' = fired /\ errors' = errors
         /\ disposed' # disposed => sessions' = sessions]_vars

\* The provider was disposed while a session of the timeout variant was
\* polling; the session went on to fetch again and then stopped because a
\* fetch failed.
C13_Witness ==
    /\ variant = "timeout"
    /\ "provider" \in disposed
    /\ \E s \in DOMAIN sessions :
         /\ sessions[s].end = "rejected"
         /\ sessions[s].nFetch >= 2
         /\ sessions[s].content = EmptyBody

\* C14: a session whose request or body read rejected has nothing pending
\* (no retry timer, no fetch), has fired no URI and logged no error; the
\* step in which the rejection happens fires nothing, logs nothing, issues
\* no fetch and leaves the URI create returned as it is; afterwards the
\* session never changes again.
C14_FetchFailureIsUnhandled ==
    [][\A s \in DOMAIN sessions :
         sessions'[s].end = "rejected" =>
           /\ sessions'[s].pc = "done"
           /\ FiredBy(s)' = <<>>
           /\ ErrorsBy(s)' = <<>>
           /\ sessions'[s].nFetch = sessions[s].nFetch
           /\ sessions[s].end = "rejected" => sessions'[s] = sessions[s]
           /\ sessions[s].end # "rejected" =>
                /\ sessions[s].pc \in {"request", "read"}
                /\ fired' = fired
                /\ errors' = errors
                /\ lastUri' = lastUri
                /\ lastCall' = lastCall]_vars

\* A body read that failed after two empty responses: nothing was fired or
\* logged, nothing is pending.
C14_Witness ==
    \E s \in DOMAIN sessions :
      /\ sessions[s].end = "rejected"
      /\ sessions[s].nEmpty = 2
      /\ sessions[s].nFetch = 3
      /\ sessions[s].pc = "done"
      /\ fired = <<>>
      /\ errors = <<>>

\* C15: a session never has more than one outstanding item, pending fetches
\* and pending retry timers counted together; a step adds a retry timer to
\* a session only while handling an empty body of that session, and adds
\* one.
C15_OneOutstandingItem ==
    [][/\ \A s \in DOMAIN sessions' :
            sessions'[s].fetches + sessions'[s].timers <= 1
       /\ \A s \in DOMAIN sessions :
            sessions'[s].timers > sessions[s].timers =>
              /\ sessions[s].pc = "read"
              /\ sessions[s].fetches = 1
              /\ sessions'[s].fetches = 0
              /\ sessions'[s].content = EmptyBody
              /\ sessions'[s].timers = sessions[s].timers + 1]_vars

\* A retry timer is the one outstanding item of a session that has already
\* retried twice.
C15_Witness ==
    \E s \in DOMAIN sessions :
      /\ sessions[s].timers = 1
      /\ sessions[s].fetches = 0
      /\ sessions[s].nFetch = 3
      /\ sessions[s].nEmpty = 3

\* C16: every retry timer, the first of a session and every later one, is
\* set to 500 ms; a pending timer's remaining delay only goes down, and by
\* no more than the time that has passed; the fetch a timer starts is
\* started only once the remaining delay is 0, that is no earlier than 500 ms
\* after the empty body that set the timer was handled.
C16_FixedRetryDelay ==
    [][\A s \in DOMAIN sessions :
         /\ sessions'[s].timers > sessions[s].timers =>
              sessions'[s].remaining = 500
         /\ (sessions[s].pc = "timer" /\ sessions'[s].pc = "timer") =>
              /\ sessions'[s].remaining <= sessions[s].remaining
              /\ \/ sessions[s].remaining - sessions'[s].remaining <= now' - now
                 \/ now = MaxClock
         /\ (sessions[s].pc = "timer" /\ sessions'[s].pc # "timer") =>
              /\ sessions[s].remaining = 0
              /\ sessions'[s].pc = "request"
              /\ now' = now]_vars

\* The fourth retry timer of a session has just been set, to the same 500 ms.
C16_Witness ==
    \E s \in DOMAIN sessions :
      /\ sessions[s].pc = "timer"
      /\ sessions[s].remaining = 500
      /\ sessions[s].nEmpty = 4
      /\ sessions[s].nFetch = 4

\* C17: the URI create returned has the scheme and the authority of the
\* window location and the path /callback, and is the URI create would have
\* returned had the window location been its bare origin: no path, query or
\* fragment of the window location is in it.
C17_UriFromOriginOnly ==
    sessions # <<>> =>
      /\ lastUri.scheme = location.scheme
      /\ lastUri.authority = location.authority
      /\ lastUri.path = <<"/", "callback">>
      /\ lastUri = CreatedUri(variant, Origin(location), lastCall.identifier,
                              lastCall.options)

\* The URIs of a sequence of fire calls.
UrisOf(calls) == [i \in 1..Len(calls) |-> calls[i].uri]

\* C18: in a step that fires events while the service's listener is
\* registered, open is called in that same step, once for each event, with
\* the event's URI and in the order of the events; in a step that fires events
\* while it is not, and in a step that fires none, open is not called: what
\* was missed is never opened.
C18_EveryEventOpenedOnce ==
    [][LET events == SubSeq(fired', Len(fired) + 1, Len(fired'))
       IN  /\ Len(fired') >= Len(fired)
           /\ IF Listening
              THEN opened' = opened \o UrisOf(events)
              ELSE opened' = opened]_vars

\* A result of two URIs came in while the service was alive: open was
\* called with the first, then with the second, and with nothing else.
C18_Witness ==
    /\ disposed = {}
    /\ UrisOf(fired) = <<Uri1, Uri2>>
    /\ opened = <<Uri1, Uri2>>

\* The fire calls of each session are next to each other in the log.
Contiguous ==
    \A i, j \in DOMAIN fired :
      (i < j /\ fired[i].session = fired[j].session) =>
        \A k \in i..j : fired[k].session = fired[i].session

\* C19: a step that fires events fires the whole decoded list of one
\* response of one session and nothing else: every other session is left as
\* it was (no fetch of it starts, no timer of it fires, nothing of it is
\* emitted) and no session is created; so in the log of fire calls the
\* events of a response are one contiguous block.
C19_EmissionIsAtomic ==
    [][fired' # fired =>
         /\ Len(sessions') = Len(sessions)
         /\ \E s \in DOMAIN sessions :
              /\ sessions[s].pc = "read"
              /\ \E us \in UriLists :
                   /\ sessions'[s].content = ArrayText(us)
                   /\ fired' = fired \o Decoded(s, us)
              /\ \A other \in DOMAIN sessions \ {s} :
                   sessions'[other] = sessions[other]
         /\ Contiguous']_vars

\* Two sessions of the same identifier were polling at once; the one created
\* later got its result first, then the other: two blocks of two events.
C19_Witness ==
    /\ Len(sessions) = 2
    /\ sessions[1].identifier = sessions[2].identifier
    /\ fired = Decoded(2, <<U1, U2>>) \o Decoded(1, <<U1, U2>>)
    /\ sessions[1].nFetch = 2

\* C20: hasFixes was called at most once, for the action's marker, and when
\* it was called the model service held a model of the marker's resource.
C20_HasFixesAtMostOnce ==
    /\ Len(hasFixesCalls) <= 1
    /\ \A i \in DOMAIN hasFixesCalls :
         /\ hasFixesCalls[i].resource = action.resource
         /\ hasFixesCalls[i].modelExists
    /\ hasFixesCalls # <<>> <=> action.updated

\* The model of the marker's resource was added, removed and added again
\* after the action was constructed: the listener ran twice, hasFixes was
\* called once.
C20_Witness ==
    /\ action.state = "alive"
    /\ action.resource = "r1"
    /\ action.listening
    /\ action.events >= 2
    /\ "r1" \in models
    /\ Len(hasFixesCalls) = 1

\* C21: every call of applyCodeAction is for a run whose openEditor request,
\* made earlier for the marker's resource and range, has resolved, and it
\* applies the code action of the action that was run; a run has at most
\* one such call, and none while its openEditor request is pending or after
\* that request was rejected.
C21_ApplyOnlyAfterOpened ==
    /\ \A j \in DOMAIN editorLog :
         editorLog[j].call = "applyCodeAction" =>
           LET k == editorLog[j].run
           IN  /\ runs[k].pc \in {"applying", "applied", "applyFailed"}
               /\ editorLog[j].codeAction = fixes.actions[runs[k].fix].codeAction
               /\ \E i \in 1..(j - 1) :
                    /\ editorLog[i].call = "openEditor"
                    /\ editorLog[i].run = k
                    /\ editorLog[i].resource = action.resource
                    /\ editorLog[i].selection = MarkerRange
               /\ \A i \in DOMAIN editorLog :
                    (editorLog[i].call = "applyCodeAction" /\ editorLog[i].run = k)
                      => i = j
    /\ \A k \in DOMAIN runs :
         runs[k].pc \in {"applying", "applied", "applyFailed"} =>
           \E j \in DOMAIN editorLog :
             editorLog[j].call = "applyCodeAction" /\ editorLog[j].run = k

\* Two runs at once: the editor failed to open for the first, whose code
\* action was not applied; it opened for the second, whose code action was
\* applied after that.
C21_Witness ==
    /\ Len(runs) = 2
    /\ runs[1].pc = "openFailed"
    /\ runs[2].pc = "applied"
    /\ Len(editorLog) = 3
    /\ editorLog[1].call = "openEditor"
    /\ editorLog[2].call = "openEditor"
    /\ editorLog[3].call = "applyCodeAction"
    /\ editorLog[3].run = 2

\* C22: an assignment to useFilesExclude of a value other than the
\* checkbox's state sets the state to it and fires onDidChange once; an
\* assignment of the value the state already has fires nothing and changes
\* nothing; either way the getter then returns the value assigned.  No
\* other step touches the list of assignments.
C22_SetterNotifiesOnChangeOnly ==
    [][assignments' # assignments =>
         LET value == assignments'[Len(assignments')]
         IN  /\ assignments' = Append(assignments, value)
             /\ useFilesExclude' = value
             /\ IF useFilesExclude # value
                THEN /\ filter' = [filter EXCEPT !.checked = value]
                     /\ changes' = Append(changes, "set")
                ELSE /\ filter' = filter
                     /\ changes' = changes]_vars

\* The checkbox was created unchecked and useFilesExclude was assigned true
\* three times: onDidChange fired once, for the first.
C22_Witness ==
    /\ assignments = <<TRUE, TRUE, TRUE>>
    /\ changes = <<"set">>
    /\ useFilesExclude

\* Five minutes, in ms.
FiveMinutes == 5 * 60 * 1000

\* C10: in the timeout variant a session that handles an empty body less
\* than 300000 ms after its startTime sets a retry timer of 500 ms.
C10_RetriesForFiveMinutes ==
    [][\A s \in DOMAIN sessions :
         (/\ variant = "timeout"
          /\ sessions[s].pc = "read"
          /\ sessions'[s].pc # "read"
          /\ sessions'[s].end \in {"none", "timeout"}
          /\ now - sessions[s].startTime < FiveMinutes)
         => /\ sessions'[s].pc = "timer"
            /\ sessions'[s].remaining = 500]_vars

====
